---- MODULE Spec2Model ----
(***************************************************************************)
(* Resilient request orchestration core of the LinkedIn scraping agent:    *)
(*   - supabase/functions/linkedin-scraper/index.ts : request limiter,     *)
(*     circuit breaker bank, single and batch scrape paths, retry loop;    *)
(*   - supabase/functions/proxy-manager/index.ts (second listing, lines    *)
(*     310-863): relay registry with its snapshot cache, weighted          *)
(*     selection, outcome reports, health check, administrative reset.     *)
(* Asynchronous handlers are split at their await points; every step       *)
(* between two awaits is one atomic action.  Times are in milliseconds.    *)
(* success_rate is DECIMAL(5,2): it is kept in hundredths of a point.      *)
(***************************************************************************)
EXTENDS Integers, Naturals, Sequences, FiniteSets, TLC

(* ------------------------------ bounds -------------------------------- *)
MaxTicks == 3
MaxRequests == 2
MaxBreakerRequests == 2
MaxTasks == 5
MaxUrls == 1
MaxCalls == 2
MaxHealthOps == 2
MaxCacheOps == 3
MaxTtlOps == 2
MaxResets == 1
MaxRetryCalls == 2
MaxCap == 5
MaxBatches == 1
MaxNotFoundOps == 2
MaxSelections == 1
MaxLimitRequests == 22

(* ------------------------- program constants -------------------------- *)
RATE_LIMIT_WINDOW == 60 * 1000
MAX_REQUESTS_PER_WINDOW == 20
MAX_CONCURRENT_SCRAPES == 5
MAX_RETRY_ATTEMPTS == 5
FAILURE_THRESHOLD == 5
OPEN_DURATION == 60000
PROXY_CACHE_TTL == 60000
MIN_SUCCESS_RATE == 25
RESET_SUCCESS_RATE == 85
HEALTH_CHECK_PENALTY == 15
DAY_MS == 24 * 60 * 60 * 1000

\* granularity of the clock: half of the two 60 s windows, so that ages below,
\* at and beyond each window all occur
TickMs == PROXY_CACHE_TTL \div 2

Min(a, b) == IF a < b THEN a ELSE b
Max(a, b) == IF a > b THEN a ELSE b

(* ------------------------------ domains ------------------------------- *)
RelayIds == {"p1", "p2"}
NoProxy == "none"
NULL == "null"
Identifiers == {"unknown"}
RequestIds == 1..2
TaskIds == 1..MaxTasks
CallIds == 1..MaxCalls

\* host:port of each configured relay (proxy_configs.host, proxy_configs.port)
RelayAddress(p) == IF p = "p1" THEN "10.0.0.1:8080" ELSE "10.0.0.2:8080"

getCircuitBreakerKey(proxy) == IF proxy # NoProxy THEN RelayAddress(proxy) ELSE "direct"

RouteKeys == {getCircuitBreakerKey(p) : p \in RelayIds \cup {NoProxy}}

\* error messages of the fetch capability, each with the substrings that the
\* classifiers look for (String.includes on the lower-cased message)
ErrorMessages == {"Profile access restricted", "captcha detected", "HTTP 429 rate limit"}
TimeoutMessage == "Scraping timeout"
Substrings(msg) ==
  CASE msg = "captcha detected" -> {"captcha"}
    [] msg = "HTTP 429 rate limit" -> {"429", "rate limit"}
    [] msg = "Scraping timeout" -> {"timeout"}
    [] msg = "connection refused" -> {"connection refused"}
    [] msg = "403 blocked after 429" -> {"403", "blocked", "429"}
    [] msg = "element not found" -> {"element not found"}
    [] OTHER -> {}
Includes(msg, s) == s \in Substrings(msg)

VARIABLES
  now,              \* Date.now()
  userRequests,     \* Map identifier -> {count, resetTime}
  circuitBreakers,  \* Map route key -> CircuitBreakerState
  reqs,             \* HTTP requests of the scraper function, by slot
  tasks,            \* per-target tasks (one scrapeWithRetry each)
  started,          \* scraper requests still to arrive
  lastResponse,     \* the response the scraper function sent last
  reported,         \* report_success / report_failure invocations sent, per relay
  consecutive,      \* history: recordFailure calls per key since the last recordSuccess
  trials,           \* history: checks answered true for an open/half-open breaker since its last recorded outcome
  breakersAtReset,  \* history: the breaker bank as read right after the last completed reset
  proxy_configs,    \* durable relay records
  cachedProxies,    \* snapshot cache of the proxy manager
  cacheTimestamp,
  pmCalls,          \* proxy-manager handler invocations in flight, by slot
  ops,              \* proxy-manager invocations still to arrive
  pmHist            \* history of the proxy manager: versions of the durable data, last write, last selection

scraperVars == <<userRequests, circuitBreakers, reqs, tasks, started, lastResponse, reported,
                 consecutive, trials>>
registryVars == <<proxy_configs, cachedProxies, cacheTimestamp>>
vars == <<now, userRequests, circuitBreakers, reqs, tasks, started, lastResponse, reported, consecutive,
          trials, breakersAtReset, proxy_configs, cachedProxies, cacheTimestamp, pmCalls, ops,
          pmHist>>

(* ======================= linkedin-scraper/index.ts ===================== *)

\* Map.set(key, value)
MapSet(m, k, v) == [x \in (DOMAIN m) \cup {k} |-> IF x = k THEN v ELSE m[x]]

\* a limiter that refuses only once the count is above the maximum
checkRateLimitLate(map, identifier, t) ==
  IF identifier \notin DOMAIN map \/ t > map[identifier].resetTime
  THEN [allowed |-> TRUE, resetTime |-> 0,
        map |-> MapSet(map, identifier, [count |-> 1, resetTime |-> t + RATE_LIMIT_WINDOW])]
  ELSE IF map[identifier].count > MAX_REQUESTS_PER_WINDOW
  THEN [allowed |-> FALSE, resetTime |-> map[identifier].resetTime, map |-> map]
  ELSE [allowed |-> TRUE, resetTime |-> 0,
        map |-> [map EXCEPT ![identifier].count = @ + 1]]

\* checkRateLimit(identifier): [allowed, resetTime, map]
checkRateLimit(map, identifier, t) ==
  IF identifier \notin DOMAIN map \/ t > map[identifier].resetTime
  THEN [allowed |-> TRUE, resetTime |-> 0,
        map |-> MapSet(map, identifier, [count |-> 1, resetTime |-> t + RATE_LIMIT_WINDOW])]
  ELSE IF map[identifier].count >= MAX_REQUESTS_PER_WINDOW
  THEN [allowed |-> FALSE, resetTime |-> map[identifier].resetTime, map |-> map]
  ELSE [allowed |-> TRUE, resetTime |-> 0,
        map |-> [map EXCEPT ![identifier].count = @ + 1]]

NewBreaker == [failureCount |-> 0, lastFailureTime |-> 0, state |-> "closed"]

\* checkCircuitBreaker(key): [allowed, map]; the open -> half-open move is its side effect
checkCircuitBreaker(map, key, t) ==
  IF key \notin DOMAIN map THEN [allowed |-> TRUE, map |-> map]
  ELSE LET breaker == map[key]
           timeSinceFailure == t - breaker.lastFailureTime
       IN CASE breaker.state = "closed" -> [allowed |-> TRUE, map |-> map]
            [] breaker.state = "open" ->
                 IF timeSinceFailure > OPEN_DURATION
                 THEN [allowed |-> TRUE, map |-> [map EXCEPT ![key].state = "half-open"]]
                 ELSE [allowed |-> FALSE, map |-> map]
            [] breaker.state = "half-open" -> [allowed |-> TRUE, map |-> map]
            [] OTHER -> [allowed |-> TRUE, map |-> map]

\* a recordSuccess that closes the breaker and leaves failureCount as it was
recordSuccessKeepsCount(map, key) ==
  LET breaker == IF key \in DOMAIN map THEN map[key] ELSE NewBreaker
  IN MapSet(map, key, [breaker EXCEPT !.state = "closed"])

\* recordSuccess(key)
recordSuccess(map, key) ==
  LET breaker == IF key \in DOMAIN map THEN map[key] ELSE NewBreaker
  IN MapSet(map, key, [breaker EXCEPT !.failureCount = 0, !.state = "closed"])

\* recordFailure(key) with the threshold test `failureCount > 5`
recordFailureLate(map, key, t) ==
  LET breaker == IF key \in DOMAIN map THEN map[key] ELSE NewBreaker
      count == breaker.failureCount + 1
  IN MapSet(map, key, [failureCount |-> count, lastFailureTime |-> t,
                       state |-> IF count > FAILURE_THRESHOLD THEN "open" ELSE breaker.state])

\* recordFailure(key)
recordFailure(map, key, t) ==
  LET breaker == IF key \in DOMAIN map THEN map[key] ELSE NewBreaker
      count == breaker.failureCount + 1
  IN MapSet(map, key, [failureCount |-> count, lastFailureTime |-> t,
                       state |-> IF count >= FAILURE_THRESHOLD THEN "open" ELSE breaker.state])

\* categorizeError(error)
categorizeError(error) ==
  IF Includes(error, "rate limit") \/ Includes(error, "429") THEN "rate_limit"
  ELSE IF Includes(error, "blocked") \/ Includes(error, "captcha")
          \/ Includes(error, "403") \/ Includes(error, "401") THEN "permanent"
  ELSE "temporary"

(* --------------------------- request handler --------------------------- *)
\* cancelled: the job the request belongs to has been cancelled (manage-job)
IdleReq == [pc |-> "idle", mode |-> "none", nUrls |-> 0, i |-> 0, successful |-> 0, failed |-> 0,
            cancelled |-> FALSE]
\* req = 0: scrapeWithRetry called on its own.  History fields: fetches, openAtChoice,
\* retriedPermanent (the loop went on after an error classified permanent),
\* afterCancel (a fetch was invoked after the job was cancelled),
\* routes (answers of get_optimal_proxy obtained for the target).
\* abandoned: while the retry loop runs, a call of performActualScraping that lost the race
\* against its timer has not settled yet
IdleTask == [req |-> 0, pc |-> "idle", proxy |-> NoProxy, attempt |-> 0, maxRetries |-> 0,
             lastError |-> NULL, fetches |-> 0, openAtChoice |-> FALSE, ok |-> FALSE,
             retriedPermanent |-> FALSE, afterCancel |-> FALSE, routes |-> 0, abandoned |-> FALSE]

FreeTasks == {t \in TaskIds : tasks[t].pc = "idle"}
\* the k free task slots of lowest index
Alloc(k) == {t \in FreeTasks : Cardinality({u \in FreeTasks : u < t}) < k}
TasksOf(r) == {t \in TaskIds : tasks[t].pc # "idle" /\ tasks[t].req = r}

\* processBatchScraping: const concurrentLimit = Math.min(MAX_CONCURRENT_SCRAPES, urls.length)
concurrentLimit(n) == Min(MAX_CONCURRENT_SCRAPES, n)
\* urls.slice(i, i + concurrentLimit).length
ChunkSize(i, n) == Min(concurrentLimit(n), n - i)

\* batch.map(async (url) => { ... invoke('proxy-manager', get_optimal_proxy) ...}):
\* every callback of the chunk runs up to its first await
StartChunk(r, i, n) ==
  [t \in TaskIds |-> IF t \in Alloc(ChunkSize(i, n))
                     THEN [IdleTask EXCEPT !.req = r, !.pc = "invokeGet"]
                     ELSE tasks[t]]

\* concurrent requests are interchangeable: a new one takes the lowest free slot
FreeReq(r) == reqs[r].pc = "idle" /\ \A q \in RequestIds : q < r => reqs[q].pc # "idle"

Response(status, resetTime, successful, failed) ==
  [status |-> status, resetTime |-> resetTime, total |-> 0,
   successful |-> successful, failed |-> failed]

\* serve(): rate limit, validation, dispatch to the batch or the single path
ServeStart(r, identifier, mode, n) ==
  /\ FreeReq(r)
  /\ started > 0
  /\ started' = started - 1
  /\ LET rl == checkRateLimit(userRequests, identifier, now)
     IN /\ userRequests' = rl.map
        /\ IF ~rl.allowed
           THEN /\ lastResponse' = Response(429, rl.resetTime, 0, 0)
                /\ UNCHANGED <<reqs, tasks>>
           ELSE IF mode = "invalid"
           THEN /\ lastResponse' = Response(400, 0, 0, 0)
                /\ UNCHANGED <<reqs, tasks>>
           ELSE /\ Cardinality(FreeTasks) >= ChunkSize(0, n)
                /\ reqs' = [reqs EXCEPT ![r] = [IdleReq EXCEPT !.pc = mode, !.mode = mode, !.nUrls = n]]
                /\ tasks' = StartChunk(r, 0, n)
                /\ UNCHANGED lastResponse
  /\ UNCHANGED <<now, circuitBreakers, reported, consecutive, trials, breakersAtReset,
                 proxy_configs, cachedProxies, cacheTimestamp, pmCalls, ops, pmHist>>

BumpTrials(key) ==
  IF key \in DOMAIN circuitBreakers /\ circuitBreakers[key].state # "closed"
  THEN [trials EXCEPT ![key] = @ + 1] ELSE trials

\* single path, lines 146-162: the proxy manager has answered; breaker check
SingleGotProxy(t, proxy) ==
  /\ tasks[t].pc = "invokeGet"
  /\ reqs[tasks[t].req].mode = "single"
  /\ LET circuitBreakerKey == getCircuitBreakerKey(proxy)
         chk == checkCircuitBreaker(circuitBreakers, circuitBreakerKey, now)
     IN /\ circuitBreakers' = chk.map
        /\ IF ~chk.allowed
           THEN /\ reqs' = [reqs EXCEPT ![tasks[t].req] = IdleReq]
                /\ lastResponse' = Response(503, 0, 0, 0)
                /\ tasks' = [tasks EXCEPT ![t] = IdleTask]
                /\ UNCHANGED trials
           ELSE /\ tasks' = [tasks EXCEPT ![t].proxy = proxy, ![t].pc = "delay", ![t].attempt = 1,
                                         ![t].maxRetries = MAX_RETRY_ATTEMPTS,
                                         ![t].routes = @ + 1]
                /\ trials' = BumpTrials(circuitBreakerKey)
                /\ UNCHANGED <<reqs, lastResponse>>
  /\ UNCHANGED <<now, userRequests, started, reported, consecutive, breakersAtReset,
                 proxy_configs, cachedProxies, cacheTimestamp, pmCalls, ops, pmHist>>

\* batch path, lines 246-250: the proxy manager has answered; scrapeWithRetry starts
BatchGotProxy(t, proxy) ==
  /\ tasks[t].pc = "invokeGet"
  /\ reqs[tasks[t].req].mode = "batch"
  /\ tasks' = [tasks EXCEPT ![t].proxy = proxy, ![t].pc = "delay", ![t].attempt = 1,
                            ![t].maxRetries = MAX_RETRY_ATTEMPTS,
                            ![t].routes = @ + 1,
                            ![t].openAtChoice =
                               ~checkCircuitBreaker(circuitBreakers, getCircuitBreakerKey(proxy), now).allowed]
  /\ UNCHANGED <<now, userRequests, circuitBreakers, reqs, started, lastResponse, reported, consecutive, trials,
                 breakersAtReset, proxy_configs, cachedProxies, cacheTimestamp, pmCalls, ops, pmHist>>

\* scrapeWithRetry, lines 315-328: the pre-attempt delay is over, the fetch is invoked
AttemptFetch(t) ==
  /\ tasks[t].pc = "delay"
  /\ tasks' = [tasks EXCEPT ![t].pc = "fetching", ![t].fetches = @ + 1,
                            ![t].afterCancel = @ \/ (tasks[t].req # 0 /\ reqs[tasks[t].req].cancelled)]
  /\ UNCHANGED <<now, userRequests, circuitBreakers, reqs, started, lastResponse, reported, consecutive, trials,
                 breakersAtReset, proxy_configs, cachedProxies, cacheTimestamp, pmCalls, ops, pmHist>>

\* a loop body that treats an error classified permanent like any other error
AttemptOutcomeRetryAll(attempt, outcome, maxRetries) ==
  IF outcome = "ok" THEN [done |-> TRUE, ok |-> TRUE, lastError |-> NULL]
  ELSE [done |-> attempt >= maxRetries, ok |-> FALSE, lastError |-> outcome]

\* a loop that runs while attempt <= maxRetries + 1
AttemptOutcomeOneMore(attempt, outcome, maxRetries) ==
  IF outcome = "ok" THEN [done |-> TRUE, ok |-> TRUE, lastError |-> NULL]
  ELSE IF outcome # TimeoutMessage /\ categorizeError(outcome) = "permanent"
  THEN [done |-> TRUE, ok |-> FALSE, lastError |-> outcome]
  ELSE [done |-> attempt > maxRetries, ok |-> FALSE, lastError |-> outcome]

\* what one pass of the loop body of scrapeWithRetry leaves, lines 330-374:
\* [done, ok, lastError]; done = FALSE means the loop goes on to the next attempt
AttemptOutcome(attempt, outcome, maxRetries) ==
  IF outcome = "ok" THEN [done |-> TRUE, ok |-> TRUE, lastError |-> NULL]
  ELSE IF outcome = TimeoutMessage
  THEN [done |-> attempt >= maxRetries, ok |-> FALSE, lastError |-> TimeoutMessage]
  ELSE IF categorizeError(outcome) = "permanent"
  THEN [done |-> TRUE, ok |-> FALSE, lastError |-> outcome]
  ELSE [done |-> attempt >= maxRetries, ok |-> FALSE, lastError |-> outcome]

\* Promise.race, lines 323-328: when performActualScraping settles first its call is over;
\* when the 15 s timer rejects first the call is left running, nothing aborts it
LeftRunning(abandoned, lastError) == abandoned \/ lastError = TimeoutMessage

\* the continuation of `await scrapeWithRetry(...)`:
\* single path lines 164-194, batch path lines 252-258; a call of scrapeWithRetry on
\* its own just holds its result
AfterScrape(t, res) ==
  LET r == tasks[t].req
      proxy == tasks[t].proxy
      circuitBreakerKey == getCircuitBreakerKey(proxy)
  IN IF r # 0 /\ reqs[r].mode = "single"
     THEN /\ circuitBreakers' = IF res.ok THEN recordSuccess(circuitBreakers, circuitBreakerKey)
                                ELSE recordFailure(circuitBreakers, circuitBreakerKey, now)
          /\ consecutive' = [consecutive EXCEPT ![circuitBreakerKey] = IF res.ok THEN 0 ELSE @ + 1]
          /\ trials' = [trials EXCEPT ![circuitBreakerKey] = 0]
          /\ IF proxy # NoProxy
             THEN /\ reported' = [reported EXCEPT ![proxy] =
                                    IF res.ok THEN [@ EXCEPT !.success = @ + 1]
                                    ELSE [@ EXCEPT !.failure = @ + 1]]
                  /\ tasks' = [tasks EXCEPT ![t].pc = "reporting", ![t].ok = res.ok,
                                            ![t].lastError = res.lastError,
                                            ![t].abandoned = FALSE]
                  /\ UNCHANGED <<reqs, lastResponse>>
             ELSE /\ reqs' = [reqs EXCEPT ![r] = IdleReq]
                  /\ lastResponse' = Response(IF res.ok THEN 200 ELSE 422, 0, 0, 0)
                  /\ tasks' = [tasks EXCEPT ![t] = IdleTask]
                  /\ UNCHANGED reported
     ELSE /\ tasks' = [tasks EXCEPT ![t].pc = "settled", ![t].ok = res.ok,
                                    ![t].lastError = res.lastError,
                                    ![t].abandoned = FALSE]
          /\ UNCHANGED <<circuitBreakers, consecutive, trials, reported, reqs, lastResponse>>

\* scrapeWithRetry, lines 323-386: the race of the fetch and the 15 s timer is decided.
\* lastError is kept only when the loop ends: every later pass that fails overwrites
\* it before anything reads it.
AttemptResult(t, outcome) ==
  /\ tasks[t].pc = "fetching"
  /\ LET res == AttemptOutcome(tasks[t].attempt, outcome, tasks[t].maxRetries)
     IN IF res.done
        THEN AfterScrape(t, res)
        ELSE /\ tasks' = [tasks EXCEPT ![t].pc = "delay", ![t].attempt = @ + 1,
                                       ![t].abandoned = LeftRunning(@, res.lastError),
                                       ![t].retriedPermanent =
                                          @ \/ (outcome # TimeoutMessage
                                                /\ categorizeError(outcome) = "permanent")]
             /\ UNCHANGED <<circuitBreakers, consecutive, trials, reported, reqs, lastResponse>>
  /\ UNCHANGED <<now, userRequests, started, breakersAtReset,
                 proxy_configs, cachedProxies, cacheTimestamp, pmCalls, ops, pmHist>>

\* a call of performActualScraping that lost the race against its timer settles; its
\* result is dropped
FetchSettles(t) ==
  /\ tasks[t].abandoned
  /\ tasks' = [tasks EXCEPT ![t].abandoned = FALSE]
  /\ UNCHANGED <<now, userRequests, circuitBreakers, reqs, started, lastResponse, reported, consecutive, trials,
                 breakersAtReset, proxy_configs, cachedProxies, cacheTimestamp, pmCalls, ops, pmHist>>

\* single path, lines 169-181 and 188-214: the report invocation has returned
SingleRespond(t) ==
  /\ tasks[t].pc = "reporting"
  /\ reqs' = [reqs EXCEPT ![tasks[t].req] = IdleReq]
  /\ lastResponse' = Response(IF tasks[t].ok THEN 200 ELSE 422, 0, 0, 0)
  /\ tasks' = [tasks EXCEPT ![t] = IdleTask]
  /\ UNCHANGED <<now, userRequests, circuitBreakers, started, reported, consecutive, trials,
                 breakersAtReset, proxy_configs, cachedProxies, cacheTimestamp, pmCalls, ops, pmHist>>

\* processBatchScraping, lines 259-268: the invocation of the proxy manager throws;
\* the callback's catch block turns it into a failed result
InvokeFailedMessage == "invoke failed"
BatchInvokeThrows(t) ==
  /\ tasks[t].pc = "invokeGet"
  /\ reqs[tasks[t].req].mode = "batch"
  /\ tasks' = [tasks EXCEPT ![t].pc = "settled", ![t].lastError = InvokeFailedMessage]
  /\ UNCHANGED <<now, userRequests, circuitBreakers, reqs, started, lastResponse, reported, consecutive, trials,
                 breakersAtReset, proxy_configs, cachedProxies, cacheTimestamp, pmCalls, ops, pmHist>>

\* a tally that leaves out the targets whose callback caught an exception
ChunkCountsReturnedOnly(ts) ==
  [successful |-> Cardinality({t \in ts : tasks[t].ok}),
   failed |-> Cardinality({t \in ts : ~tasks[t].ok /\ tasks[t].lastError # InvokeFailedMessage})]

\* lines 272-284 and 299-300: one result per settled promise, counted by its success flag
ChunkCounts(ts) ==
  [successful |-> Cardinality({t \in ts : tasks[t].ok}),
   failed |-> Cardinality({t \in ts : ~tasks[t].ok})]

\* a join that resolves as soon as one promise of the chunk has settled
ChunkAnySettled(r) == \E t \in TasksOf(r) : tasks[t].pc = "settled"

\* line 271, Promise.allSettled(batchPromises): every callback of the chunk has settled
ChunkSettled(r) == TasksOf(r) # {} /\ \A t \in TasksOf(r) : tasks[t].pc = "settled"

\* processBatchScraping, lines 271-303: Promise.allSettled of the chunk has resolved;
\* the results are pushed, then the pacing delay starts or the summary is returned
BatchJoin(r) ==
  /\ reqs[r].pc = "batch"
  /\ ChunkSettled(r)
  /\ LET counts == ChunkCounts(TasksOf(r))
         more == reqs[r].i + concurrentLimit(reqs[r].nUrls) < reqs[r].nUrls
     IN IF more
        THEN /\ reqs' = [reqs EXCEPT ![r].successful = @ + counts.successful,
                                      ![r].failed = @ + counts.failed,
                                      ![r].pc = "pacing"]
             /\ UNCHANGED lastResponse
        ELSE /\ reqs' = [reqs EXCEPT ![r] = IdleReq]
             /\ lastResponse' = [Response(200, 0, reqs[r].successful + counts.successful,
                                          reqs[r].failed + counts.failed)
                                   EXCEPT !.total = reqs[r].nUrls]
  /\ tasks' = [t \in TaskIds |-> IF t \in TasksOf(r) THEN IdleTask ELSE tasks[t]]
  /\ UNCHANGED <<now, userRequests, circuitBreakers, started, reported, consecutive, trials,
                 breakersAtReset, proxy_configs, cachedProxies, cacheTimestamp, pmCalls, ops, pmHist>>

\* manage-job, action 'cancel', lines 156-164: the job row is marked cancelled; nothing else
\* is written and no running scrape is told
Cancel(r) ==
  /\ reqs[r].pc \in {"batch", "pacing"}
  /\ ~reqs[r].cancelled
  /\ reqs' = [reqs EXCEPT ![r].cancelled = TRUE]
  /\ UNCHANGED <<now, userRequests, circuitBreakers, tasks, started, lastResponse, reported,
                 consecutive, trials, breakersAtReset, proxy_configs, cachedProxies,
                 cacheTimestamp, pmCalls, ops, pmHist>>

\* processBatchScraping, lines 241-244 and 290: the pacing delay is over, the next chunk starts
BatchNextChunk(r) ==
  /\ reqs[r].pc = "pacing"
  /\ LET i == reqs[r].i + concurrentLimit(reqs[r].nUrls)
     IN /\ Cardinality(FreeTasks) >= ChunkSize(i, reqs[r].nUrls)
        /\ reqs' = [reqs EXCEPT ![r].i = i, ![r].pc = "batch"]
        /\ tasks' = StartChunk(r, i, reqs[r].nUrls)
  /\ UNCHANGED <<now, userRequests, circuitBreakers, started, lastResponse, reported, consecutive, trials,
                 breakersAtReset, proxy_configs, cachedProxies, cacheTimestamp, pmCalls, ops, pmHist>>

\* the properties of the object scrapeWithRetry returns: lines 338-345 on success
\* (the profile with scrapingMetadata.attemptsUsed and .totalProcessingTime), line 385 on failure
ResultFields(ok) == IF ok THEN {"profile", "attemptsUsed", "totalProcessingTime"} ELSE {"error"}

\* the value scrapeWithRetry returns when its loop never runs, line 385
NoAttemptsMessage == "All retry attempts failed"

\* scrapeWithRetry(url, proxy, maxRetries) called on its own, lines 306-320: the loop is
\* entered, or with maxRetries = 0 the function returns at once
RetryCall(t, proxy, maxRetries) ==
  /\ \A u \in TaskIds : tasks[u].pc = "idle"
  /\ t = 1
  /\ started > 0
  /\ started' = started - 1
  /\ tasks' = [tasks EXCEPT ![t] =
                 IF maxRetries >= 1
                 THEN [IdleTask EXCEPT !.proxy = proxy, !.pc = "delay", !.attempt = 1,
                                       !.maxRetries = maxRetries]
                 ELSE [IdleTask EXCEPT !.proxy = proxy, !.pc = "settled",
                                       !.lastError = NoAttemptsMessage]]
  /\ UNCHANGED <<now, userRequests, circuitBreakers, reqs, lastResponse, reported, consecutive, trials,
                 breakersAtReset, proxy_configs, cachedProxies, cacheTimestamp, pmCalls, ops, pmHist>>

\* the caller of scrapeWithRetry has taken the result
RetryCollect(t) ==
  /\ tasks[t].pc = "settled" /\ tasks[t].req = 0
  /\ tasks' = [tasks EXCEPT ![t] = IdleTask]
  /\ UNCHANGED <<now, userRequests, circuitBreakers, reqs, started, lastResponse, reported, consecutive, trials,
                 breakersAtReset, proxy_configs, cachedProxies, cacheTimestamp, pmCalls, ops, pmHist>>

\* the clock advances
Tick ==
  /\ now + TickMs <= MaxTicks * TickMs
  /\ now' = now + TickMs
  /\ UNCHANGED <<userRequests, circuitBreakers, reqs, tasks, started, lastResponse, reported, consecutive,
                 trials, breakersAtReset, proxy_configs, cachedProxies, cacheTimestamp, pmCalls, ops, pmHist>>

(* ========================= proxy-manager/index.ts ====================== *)
NullTime == 0 - 1
NullRow == [id |-> NoProxy, is_active |-> FALSE, success_rate |-> 0, total_requests |-> 0,
            successful_requests |-> 0, failed_requests |-> 0, last_used_at |-> NullTime,
            avg_response_time |-> 0, health_check_status |-> "unknown",
            last_error_message |-> NULL]
\* a configured relay as the migrations create it, with a given health
NewRow(p, active, rate) == [NullRow EXCEPT !.id = p, !.is_active = active, !.success_rate = rate]

\* the columns of a row that a handler goes on to use after reading it
Columns(row) == [id |-> row.id, success_rate |-> row.success_rate,
                 total_requests |-> row.total_requests,
                 successful_requests |-> row.successful_requests,
                 failed_requests |-> row.failed_requests,
                 last_used_at |-> row.last_used_at,
                 avg_response_time |-> row.avg_response_time]
NullColumns == Columns(NullRow)

\* .eq('is_active', true).gte('success_rate', MIN_SUCCESS_RATE)
Eligible(row) == row.is_active /\ row.success_rate >= MIN_SUCCESS_RATE * 100

\* .order('success_rate', { ascending: false }).order('last_used_at', { ascending: true })
\* (ascending order puts NULL last)
Precedes(a, b) ==
  \/ a.success_rate > b.success_rate
  \/ /\ a.success_rate = b.success_rate
     /\ a.last_used_at # NullTime
     /\ (b.last_used_at = NullTime \/ a.last_used_at < b.last_used_at)

\* the lists the select of getOptimalProxy can return: rows that tie come in any order
OrderedLoads(db) ==
  LET ids == {p \in RelayIds : Eligible(db[p])}
      n == Cardinality(ids)
  IN {[i \in 1..n |-> Columns(db[f[i]])] :
        f \in {g \in [1..n -> ids] :
                 /\ \A i, j \in 1..n : i # j => g[i] # g[j]
                 /\ \A i, j \in 1..n : i < j => ~Precedes(db[g[j]], db[g[i]])}}

\* values of Math.random() * 0.2, in hundredths
RandomTerms == {0, 19}

\* a totalWeight in which the success rate counts 0.3 instead of 0.4
WeightSuccessLow(proxy, maxRequests, random, t) ==
  LET timeSinceUsed == IF proxy.last_used_at = NullTime THEN DAY_MS
                       ELSE Min(t - proxy.last_used_at, DAY_MS)
      avgResponseTime == IF proxy.avg_response_time = 0 THEN 1000 ELSE proxy.avg_response_time
      m == IF maxRequests > 0 THEN maxRequests ELSE 1
      balance == IF maxRequests > 0 THEN maxRequests - proxy.total_requests ELSE 1
  IN m * ( proxy.success_rate * 216
           + (timeSinceUsed \div TickMs) * (1800000 \div (DAY_MS \div TickMs))
           + Max(0, 5000 - avgResponseTime) * 288
           + random * 72000 )
     + 720000 * balance

\* totalWeight of selectProxyWithWeighting, lines 489-509, times 7200000 * m where
\* m is maxRequests (or 1 when maxRequests is 0), which makes every term an integer
Weight(proxy, maxRequests, random, t) ==
  LET timeSinceUsed == IF proxy.last_used_at = NullTime THEN DAY_MS
                       ELSE Min(t - proxy.last_used_at, DAY_MS)
      avgResponseTime == IF proxy.avg_response_time = 0 THEN 1000 ELSE proxy.avg_response_time
      m == IF maxRequests > 0 THEN maxRequests ELSE 1
      balance == IF maxRequests > 0 THEN maxRequests - proxy.total_requests ELSE 1
  IN m * ( proxy.success_rate * 288
           + (timeSinceUsed \div TickMs) * (1800000 \div (DAY_MS \div TickMs))
           + Max(0, 5000 - avgResponseTime) * 288
           + random * 72000 )
     + 720000 * balance

\* selectProxyWithWeighting(proxies): the first row of highest weight (the sort is stable)
selectProxyWithWeighting(proxies, rnd, t) ==
  LET n == Len(proxies)
      maxRequests == CHOOSE m \in {proxies[i].total_requests : i \in 1..n} :
                        \A i \in 1..n : proxies[i].total_requests <= m
      w(i) == Weight(proxies[i], maxRequests, rnd[i], t)
      best == CHOOSE i \in 1..n : \A j \in 1..n : w(j) <= w(i) /\ (j < i => w(j) < w(i))
  IN proxies[best]

\* categorizeErrorSeverity(errorMessage)
categorizeErrorSeverity(errorMessage) ==
  IF \/ Includes(errorMessage, "connection refused") \/ Includes(errorMessage, "network unreachable")
     \/ Includes(errorMessage, "proxy authentication failed")
     \/ Includes(errorMessage, "proxy connection failed") THEN 25
  ELSE IF \/ Includes(errorMessage, "timeout") \/ Includes(errorMessage, "connection reset")
          \/ Includes(errorMessage, "502") \/ Includes(errorMessage, "503")
          \/ Includes(errorMessage, "504") THEN 18
  ELSE IF \/ Includes(errorMessage, "rate limit") \/ Includes(errorMessage, "429")
          \/ Includes(errorMessage, "captcha") \/ Includes(errorMessage, "too many requests") THEN 12
  ELSE IF \/ Includes(errorMessage, "parsing") \/ Includes(errorMessage, "element not found")
          \/ Includes(errorMessage, "invalid response") THEN 5
  ELSE 8

\* reportProxySuccess, lines 543-545: currentRate + (100 - currentRate) * 0.1 as the
\* DECIMAL(5,2) column stores it.  The sum has three decimals; when the third is 5
\* the double arithmetic decides which neighbour is stored, so both are possible.
SuccessRates(success_rate) ==
  LET thousandths == 9 * success_rate + 10000
      q == thousandths \div 10
      r == thousandths % 10
  IN {Min(10000, x) : x \in IF r < 5 THEN {q} ELSE IF r > 5 THEN {q + 1} ELSE {q, q + 1}}

\* the failure arithmetic without Math.max(0, ...)
FailureRateUnclamped(success_rate, penalty) ==
  LET currentRate == IF success_rate = 0 THEN 10000 ELSE success_rate
  IN currentRate - penalty * 15

\* reportProxyFailure, lines 592-595: success_rate || 100, penalty * 0.15
FailureRate(success_rate, penalty) ==
  LET currentRate == IF success_rate = 0 THEN 10000 ELSE success_rate
  IN Max(0, currentRate - penalty * 15)

\* reportProxyFailure, line 601
IsActiveAfterFailure(newRate) == newRate > MIN_SUCCESS_RATE * 100

\* a success update that leaves is_active as it was
IsActiveKept(newRate, wasActive) == wasActive

\* reportProxySuccess, line 556: is_active: true
IsActiveAfterSuccess(newRate, wasActive) == TRUE

\* performHealthCheck, line 757
HealthFailureRate(success_rate) ==
  LET currentRate == IF success_rate = 0 THEN 10000 ELSE success_rate
  IN Max(0, currentRate - HEALTH_CHECK_PENALTY * 100)

IdleCall == [op |-> "idle", pc |-> "idle", startedAt |-> 0, proxyId |-> NoProxy,
             error |-> NULL, read |-> NullColumns, rows |-> <<>>, pending |-> {},
             startV |-> 0, dataV |-> 0]
NoSelection == [made |-> FALSE, proxy |-> NoProxy, cached |-> FALSE, age |-> 0,
                dataV |-> 0, startV |-> 0, stale |-> FALSE]
NoWrite == [op |-> "none", proxyId |-> NoProxy, wasActive |-> FALSE]

\* concurrent invocations are interchangeable: a new one takes the lowest free slot
FreeCall(c) == pmCalls[c].op = "idle" /\ \A d \in CallIds : d < c => pmCalls[d].op # "idle"

\* the relay handed out is not eligible in the durable store although another one is
StaleChoice(db, p) == ~Eligible(db[p]) /\ \E q \in RelayIds : Eligible(db[q])

\* the cache test with an age of exactly the TTL still accepted
CacheUsableAtTtl(cache, timestamp, t) == cache.valid /\ (t - timestamp) <= PROXY_CACHE_TTL

\* cachedProxies && (now - cacheTimestamp) < PROXY_CACHE_TTL, line 409
CacheUsable(cache, timestamp, t) == cache.valid /\ (t - timestamp) < PROXY_CACHE_TTL

NullCache == [valid |-> FALSE, rows |-> <<>>]

\* snapshots handed to selectProxyWithWeighting: two or five eligible rows in the order of
\* the select (success_rate descending), with rates at, just above and far above 50 points
\* over the lowest one, and request counts that are equal or not
SnapshotSizes == {2, MAX_CONCURRENT_SCRAPES}
SnapshotRates == {3000, 8000, 8001, 9500}
SnapshotCounts == {0, 3}
Snapshots ==
  LET ids == <<"p1", "p2", "p3", "p4", "p5">>
      row(i, rate, count) ==
        Columns([NullRow EXCEPT !.id = ids[i], !.success_rate = rate, !.total_requests = count])
  IN
  UNION {{[i \in 1..n |-> row(i, f[i][1], f[i][2])] :
            f \in {g \in [1..n -> SnapshotRates \X SnapshotCounts] :
                     \A i \in 1..(n - 1) : g[i][1] >= g[i + 1][1]}} : n \in SnapshotSizes}

\* getOptimalProxy, lines 408-413: the cached snapshot is weighted and the best row chosen
SelectFromSnapshot(rnd) ==
  /\ ops > 0
  /\ ops' = ops - 1
  /\ CacheUsable(cachedProxies, cacheTimestamp, now)
  /\ rnd \in [1..Len(cachedProxies.rows) -> RandomTerms]
  /\ pmHist' = [pmHist EXCEPT !.sel =
                  [NoSelection EXCEPT !.made = TRUE, !.cached = TRUE,
                     !.proxy = selectProxyWithWeighting(cachedProxies.rows, rnd, now).id]]
  /\ UNCHANGED <<now, scraperVars, breakersAtReset, proxy_configs, cachedProxies, cacheTimestamp,
                 pmCalls>>

\* getOptimalProxy, lines 408-435: answer from the cache, or issue the select
GetStart(c, rnd) ==
  /\ FreeCall(c)
  /\ ops > 0
  /\ ops' = ops - 1
  /\ IF CacheUsable(cachedProxies, cacheTimestamp, now)
     THEN /\ rnd \in [1..Len(cachedProxies.rows) -> RandomTerms]
          /\ LET optimalProxy == selectProxyWithWeighting(cachedProxies.rows, rnd, now)
             IN /\ pmCalls' = [pmCalls EXCEPT ![c] = [IdleCall EXCEPT !.op = "get", !.pc = "touch",
                                                        !.startedAt = now,
                                                        !.proxyId = optimalProxy.id]]
                /\ pmHist' = [pmHist EXCEPT !.sel =
                                [made |-> TRUE, proxy |-> optimalProxy.id, cached |-> TRUE,
                                 age |-> now - cacheTimestamp,
                                 dataV |-> pmHist.cacheV, startV |-> pmHist.completed,
                                 stale |-> StaleChoice(proxy_configs, optimalProxy.id)]]
     ELSE /\ rnd = <<>>
          /\ pmCalls' = [pmCalls EXCEPT ![c] = [IdleCall EXCEPT !.op = "get", !.pc = "query",
                                                 !.startedAt = now, !.startV = pmHist.completed]]
          /\ UNCHANGED pmHist
  /\ UNCHANGED <<now, scraperVars, breakersAtReset, proxy_configs, cachedProxies, cacheTimestamp>>

\* getOptimalProxy, lines 414-419: the fire-and-forget update of last_used_at lands
GetTouch(c) ==
  /\ pmCalls[c].op = "get" /\ pmCalls[c].pc = "touch"
  /\ proxy_configs' = [proxy_configs EXCEPT ![pmCalls[c].proxyId].last_used_at = pmCalls[c].startedAt]
  /\ pmHist' = [pmHist EXCEPT !.lastWrite = [op |-> "touch", proxyId |-> pmCalls[c].proxyId,
                                             wasActive |-> proxy_configs[pmCalls[c].proxyId].is_active]]
  /\ pmCalls' = [pmCalls EXCEPT ![c] = IdleCall]
  /\ UNCHANGED <<now, scraperVars, breakersAtReset, cachedProxies, cacheTimestamp, ops>>

\* getOptimalProxy, lines 429-435: the select runs against the durable store
GetQuery(c, rows) ==
  /\ pmCalls[c].op = "get" /\ pmCalls[c].pc = "query"
  /\ rows \in OrderedLoads(proxy_configs)
  /\ pmCalls' = [pmCalls EXCEPT ![c].pc = "loaded", ![c].rows = rows, ![c].dataV = pmHist.writes]
  /\ UNCHANGED <<now, scraperVars, breakersAtReset, proxy_configs, cachedProxies, cacheTimestamp,
                 ops, pmHist>>

\* getOptimalProxy, lines 442-463: no rows, or cache the rows, select, issue the update
GetContinue(c, rnd) ==
  /\ pmCalls[c].op = "get" /\ pmCalls[c].pc = "loaded"
  /\ rnd \in [1..Len(pmCalls[c].rows) -> RandomTerms]
  /\ IF pmCalls[c].rows = <<>>
     THEN /\ pmCalls' = [pmCalls EXCEPT ![c] = IdleCall]
          /\ pmHist' = [pmHist EXCEPT !.sel = NoSelection]
          /\ UNCHANGED <<cachedProxies, cacheTimestamp>>
     ELSE /\ cachedProxies' = [valid |-> TRUE, rows |-> pmCalls[c].rows]
          /\ cacheTimestamp' = pmCalls[c].startedAt
          /\ LET optimalProxy == selectProxyWithWeighting(pmCalls[c].rows, rnd, now)
             IN pmCalls' = [pmCalls EXCEPT ![c].pc = "update", ![c].startedAt = now,
                                           ![c].rows = <<>>,
                                           ![c].proxyId = optimalProxy.id,
                                           ![c].read = optimalProxy]
          /\ pmHist' = [pmHist EXCEPT !.cacheV = pmCalls[c].dataV]
  /\ UNCHANGED <<now, scraperVars, breakersAtReset, proxy_configs, ops>>

\* getOptimalProxy, lines 455-476: the update of last_used_at and total_requests lands
\* and the handler returns the selected row
GetUpdate(c) ==
  /\ pmCalls[c].op = "get" /\ pmCalls[c].pc = "update"
  /\ LET id == pmCalls[c].proxyId
     IN /\ proxy_configs' = [proxy_configs EXCEPT
                               ![id].last_used_at = pmCalls[c].startedAt,
                               ![id].total_requests = pmCalls[c].read.total_requests + 1]
        /\ pmHist' = [pmHist EXCEPT
                        !.lastWrite = [op |-> "select", proxyId |-> id,
                                       wasActive |-> proxy_configs[id].is_active],
                        !.sel = [made |-> TRUE, proxy |-> id, cached |-> FALSE, age |-> 0,
                                 dataV |-> pmCalls[c].dataV, startV |-> pmCalls[c].startV,
                                 stale |-> StaleChoice(proxy_configs, id)]]
  /\ pmCalls' = [pmCalls EXCEPT ![c] = IdleCall]
  /\ UNCHANGED <<now, scraperVars, breakersAtReset, cachedProxies, cacheTimestamp, ops>>

\* messages a caller passes to report_failure
ReportErrors == {"connection refused"}
MissingId == "p9"

\* what a report handler returns: { success: true, ... } or { success: false, error }
NoResult == [success |-> FALSE, error |-> NULL]
ReportOk == [success |-> TRUE, error |-> NULL]
ProxyNotFound == "Proxy not found"
ReportFailed(message) == [success |-> FALSE, error |-> message]

\* a report handler whose error path also drops the cached snapshot
ReportReadClearing(c, kind, proxyId, errorMessage) ==
  /\ FreeCall(c)
  /\ ops > 0
  /\ ops' = ops - 1
  /\ IF proxyId \in RelayIds
     THEN /\ pmCalls' = [pmCalls EXCEPT ![c] = [IdleCall EXCEPT !.op = kind, !.pc = "read",
                                                  !.proxyId = proxyId, !.error = errorMessage,
                                                  !.read = Columns(proxy_configs[proxyId])]]
          /\ UNCHANGED <<pmHist, cachedProxies>>
     ELSE /\ pmHist' = [pmHist EXCEPT !.rejected = @ + 1, !.result = ReportFailed(ProxyNotFound)]
          /\ cachedProxies' = NullCache
          /\ UNCHANGED pmCalls
  /\ UNCHANGED <<now, scraperVars, breakersAtReset, proxy_configs, cacheTimestamp>>

\* reportProxySuccess / reportProxyFailure, lines 532-540 and 581-589: the row is read;
\* an unknown id throws 'Proxy not found' and the catch (572-575, 634-637) returns
\* { success: false, error: 'Proxy not found' }
ReportRead(c, kind, proxyId, errorMessage) ==
  /\ FreeCall(c)
  /\ ops > 0
  /\ ops' = ops - 1
  /\ IF proxyId \in RelayIds
     THEN /\ pmCalls' = [pmCalls EXCEPT ![c] = [IdleCall EXCEPT !.op = kind, !.pc = "read",
                                                  !.proxyId = proxyId, !.error = errorMessage,
                                                  !.read = Columns(proxy_configs[proxyId])]]
          /\ UNCHANGED pmHist
     ELSE /\ pmHist' = [pmHist EXCEPT !.rejected = @ + 1, !.result = ReportFailed(ProxyNotFound)]
          /\ UNCHANGED pmCalls
  /\ UNCHANGED <<now, scraperVars, breakersAtReset, proxy_configs, cachedProxies, cacheTimestamp>>

\* the update of reportProxySuccess, lines 550-558
SuccessUpdate(row, read, newRate, t) ==
  [row EXCEPT !.success_rate = newRate,
              !.successful_requests = read.successful_requests + 1,
              !.last_used_at = t,
              !.is_active = IsActiveAfterSuccess(newRate, row.is_active)]

\* the update of reportProxyFailure, lines 603-612
FailureUpdate(row, read, errorMessage, t) ==
  LET newRate == FailureRate(read.success_rate, categorizeErrorSeverity(errorMessage))
  IN [row EXCEPT !.success_rate = newRate,
                 !.failed_requests = read.failed_requests + 1,
                 !.is_active = IsActiveAfterFailure(newRate),
                 !.last_used_at = t,
                 !.last_error_message = errorMessage]

\* reportProxySuccess, lines 543-558: the update computed from the row read lands
ReportSuccessWrite(c, newRate) ==
  /\ pmCalls[c].op = "report_success" /\ pmCalls[c].pc = "read"
  /\ newRate \in SuccessRates(pmCalls[c].read.success_rate)
  /\ LET id == pmCalls[c].proxyId
     IN /\ proxy_configs' = [proxy_configs EXCEPT ![id] =
                               SuccessUpdate(@, pmCalls[c].read, newRate, now)]
        /\ pmHist' = [pmHist EXCEPT !.writes = @ + 1,
                        !.lastWrite = [op |-> "report_success", proxyId |-> id,
                                       wasActive |-> proxy_configs[id].is_active]]
  /\ pmCalls' = [pmCalls EXCEPT ![c].pc = "written", ![c].read = NullColumns,
                                ![c].dataV = pmHist.writes + 1]
  /\ UNCHANGED <<now, scraperVars, breakersAtReset, cachedProxies, cacheTimestamp, ops>>

\* reportProxyFailure, lines 592-612: the update computed from the row read lands
ReportFailureWrite(c) ==
  /\ pmCalls[c].op = "report_failure" /\ pmCalls[c].pc = "read"
  /\ LET id == pmCalls[c].proxyId
     IN /\ proxy_configs' = [proxy_configs EXCEPT ![id] =
                               FailureUpdate(@, pmCalls[c].read, pmCalls[c].error, now)]
        /\ pmHist' = [pmHist EXCEPT !.writes = @ + 1,
                        !.lastWrite = [op |-> "report_failure", proxyId |-> id,
                                       wasActive |-> proxy_configs[id].is_active]]
  /\ pmCalls' = [pmCalls EXCEPT ![c].pc = "written", ![c].read = NullColumns,
                                ![c].dataV = pmHist.writes + 1]
  /\ UNCHANGED <<now, scraperVars, breakersAtReset, cachedProxies, cacheTimestamp, ops>>

\* lines 560-570 and 614-632: cachedProxies = null, the handler returns
ReportDone(c) ==
  /\ pmCalls[c].op \in {"report_success", "report_failure"} /\ pmCalls[c].pc = "written"
  /\ cachedProxies' = NullCache
  /\ pmHist' = [pmHist EXCEPT !.completed = Max(@, pmCalls[c].dataV), !.result = ReportOk]
  /\ pmCalls' = [pmCalls EXCEPT ![c] = IdleCall]
  /\ UNCHANGED <<now, scraperVars, breakersAtReset, proxy_configs, cacheTimestamp, ops>>

\* avg_response_time values a health check measures (200 to 1700 ms)
ResponseTimes == {1700}

\* performHealthCheck, lines 726-777: the active rows are read and one update per row is built
HealthRead(c) ==
  /\ FreeCall(c)
  /\ ops > 0
  /\ ops' = ops - 1
  /\ LET ids == {p \in RelayIds : proxy_configs[p].is_active}
         n == Cardinality(ids)
         order == CHOOSE f \in [1..n -> ids] : \A i, j \in 1..n : i # j => f[i] # f[j]
     IN pmCalls' = [pmCalls EXCEPT ![c] = [IdleCall EXCEPT !.op = "health_check", !.pc = "updates",
                                             !.pending = ids,
                                             !.rows = [i \in 1..n |-> Columns(proxy_configs[order[i]])]]]
  /\ UNCHANGED <<now, scraperVars, breakersAtReset, proxy_configs, cachedProxies, cacheTimestamp,
                 pmHist>>

RowOf(rows, p) == rows[CHOOSE i \in 1..Len(rows) : rows[i].id = p]

\* the two updates of performHealthCheck, lines 751-773
HealthUpdateRow(row, read, isHealthy, responseTime) ==
  IF ~isHealthy
  THEN [row EXCEPT !.is_active = FALSE,
                   !.success_rate = HealthFailureRate(read.success_rate),
                   !.health_check_status = "failed",
                   !.last_error_message = "Health check failed"]
  ELSE [row EXCEPT !.health_check_status = "passed", !.avg_response_time = responseTime]

\* performHealthCheck: one of the parallel updates lands
HealthUpdate(c, p, isHealthy, responseTime) ==
  /\ pmCalls[c].op = "health_check" /\ pmCalls[c].pc = "updates"
  /\ p \in pmCalls[c].pending
  /\ proxy_configs' = [proxy_configs EXCEPT ![p] =
                         HealthUpdateRow(@, RowOf(pmCalls[c].rows, p), isHealthy, responseTime)]
  /\ pmHist' = [pmHist EXCEPT !.lastWrite = [op |-> "health_check", proxyId |-> p,
                                             wasActive |-> proxy_configs[p].is_active]]
  /\ pmCalls' = [pmCalls EXCEPT ![c].pending = @ \ {p}]
  /\ UNCHANGED <<now, scraperVars, breakersAtReset, cachedProxies, cacheTimestamp, ops>>

\* performHealthCheck, lines 777-793: all updates settled, cachedProxies = null
HealthDone(c) ==
  /\ pmCalls[c].op = "health_check" /\ pmCalls[c].pc = "updates"
  /\ pmCalls[c].pending = {}
  /\ cachedProxies' = NullCache
  /\ pmCalls' = [pmCalls EXCEPT ![c] = IdleCall]
  /\ UNCHANGED <<now, scraperVars, breakersAtReset, proxy_configs, cacheTimestamp, ops, pmHist>>

\* the update of resetCircuitBreakers, lines 804-812, on one row
ResetRow(row) ==
  IF row.success_rate >= 0
  THEN [row EXCEPT !.is_active = TRUE, !.success_rate = RESET_SUCCESS_RATE * 100,
                   !.last_error_message = NULL, !.health_check_status = "unknown"]
  ELSE row

\* resetCircuitBreakers, lines 804-812: the update of all rows lands
ResetUpdate(c) ==
  /\ FreeCall(c)
  /\ ops > 0
  /\ ops' = ops - 1
  /\ proxy_configs' = [p \in RelayIds |-> ResetRow(proxy_configs[p])]
  /\ pmHist' = [pmHist EXCEPT !.lastWrite = [op |-> "reset", proxyId |-> NoProxy, wasActive |-> FALSE]]
  /\ pmCalls' = [pmCalls EXCEPT ![c] = [IdleCall EXCEPT !.op = "reset_circuit_breakers",
                                          !.pc = "written"]]
  /\ UNCHANGED <<now, scraperVars, breakersAtReset, cachedProxies, cacheTimestamp>>

\* what resetCircuitBreakers does to the breaker bank of the scraper function: nothing,
\* lines 801-833 never name circuitBreakers (it lives in the other function's module)
ResetBreakers(map) == map

\* resetCircuitBreakers, lines 818-827: cachedProxies = null, the handler returns success
ResetDone(c) ==
  /\ pmCalls[c].op = "reset_circuit_breakers" /\ pmCalls[c].pc = "written"
  /\ cachedProxies' = NullCache
  /\ circuitBreakers' = ResetBreakers(circuitBreakers)
  /\ breakersAtReset' = [done |-> TRUE, map |-> circuitBreakers']
  /\ pmCalls' = [pmCalls EXCEPT ![c] = IdleCall]
  /\ UNCHANGED <<now, userRequests, reqs, tasks, started, lastResponse, reported, consecutive, trials,
                 proxy_configs, cacheTimestamp, ops, pmHist>>

(* ------------------------------ initial state -------------------------- *)
\* health a configured relay can have when the functions start: the column default,
\* or a relay worn down by failure reports
InitHealth == {<<TRUE, 10000>>, <<TRUE, 2800>>}
Fresh == <<TRUE, 10000>>
\* relay p1 in any health, a deactivated relay near the floor included, next to a fresh p2
InitWorn == {h \in [RelayIds -> InitHealth \cup {<<FALSE, 250>>}] : h["p2"] = Fresh}

RECURSIVE BankAfter(_)
\* a breaker bank in which the direct route has seen n consecutive failures at time 0
BankAfter(n) == IF n = 0 THEN <<>> ELSE recordFailure(BankAfter(n - 1), "direct", 0)
InitFailures == {0, 4, 5}

\* the module-level state of both functions between requests
InitCommon ==
  /\ now = 0
  /\ userRequests = <<>>
  /\ reqs = [r \in RequestIds |-> IdleReq]
  /\ lastResponse = Response(0, 0, 0, 0)
  /\ tasks = [t \in TaskIds |-> IdleTask]
  /\ reported = [p \in RelayIds |-> [success |-> 0, failure |-> 0]]
  /\ trials = [k \in RouteKeys |-> 0]
  /\ breakersAtReset = [done |-> FALSE, map |-> <<>>]
  /\ cachedProxies = NullCache
  /\ cacheTimestamp = 0
  /\ pmCalls = [c \in CallIds |-> IdleCall]
  /\ pmHist = [writes |-> 0, completed |-> 0, cacheV |-> 0,
               lastWrite |-> NoWrite, sel |-> NoSelection,
               rejected |-> 0, result |-> NoResult]

InitRegistry(healths) ==
  /\ InitCommon
  /\ circuitBreakers = <<>>
  /\ consecutive = [k \in RouteKeys |-> 0]
  /\ started = 0
  /\ \E h \in healths :
       proxy_configs = [p \in RelayIds |-> NewRow(p, h[p][1], h[p][2])]

InitHealthSpec == InitRegistry(InitWorn) /\ ops = MaxHealthOps
InitCache == InitRegistry([RelayIds -> InitHealth]) /\ ops = MaxCacheOps
InitTtl == InitRegistry([RelayIds -> {Fresh}]) /\ ops = MaxTtlOps
InitNotFound == InitRegistry([RelayIds -> {Fresh}]) /\ ops = MaxNotFoundOps
\* the proxy manager with a snapshot in its cache
InitSelect ==
  /\ now = 0 /\ userRequests = <<>> /\ reqs = [r \in RequestIds |-> IdleReq]
  /\ lastResponse = Response(0, 0, 0, 0) /\ tasks = [t \in TaskIds |-> IdleTask]
  /\ reported = [p \in RelayIds |-> [success |-> 0, failure |-> 0]]
  /\ trials = [k \in RouteKeys |-> 0] /\ consecutive = [k \in RouteKeys |-> 0]
  /\ breakersAtReset = [done |-> FALSE, map |-> <<>>] /\ circuitBreakers = <<>>
  /\ started = 0 /\ ops = MaxSelections
  /\ proxy_configs = [p \in RelayIds |-> NewRow(p, Fresh[1], Fresh[2])]
  /\ cacheTimestamp = 0
  /\ \E rows \in Snapshots : cachedProxies = [valid |-> TRUE, rows |-> rows]
  /\ pmCalls = [c \in CallIds |-> IdleCall]
  /\ pmHist = [writes |-> 0, completed |-> 0, cacheV |-> 0, lastWrite |-> NoWrite,
               sel |-> NoSelection, rejected |-> 0, result |-> NoResult]

\* the scraper function with the direct route's breaker unseen or part-way to opening
InitBank ==
  /\ InitCommon
  /\ \E n \in InitFailures :
       /\ circuitBreakers = BankAfter(n)
       /\ consecutive = [k \in RouteKeys |-> IF k = "direct" THEN n ELSE 0]
  /\ proxy_configs = [p \in RelayIds |-> NewRow(p, Fresh[1], Fresh[2])]

InitScraper == InitBank /\ started = MaxRequests /\ ops = MaxResets
InitBatch == InitCommon /\ circuitBreakers = <<>> /\ consecutive = [k \in RouteKeys |-> 0]
             /\ proxy_configs = [p \in RelayIds |-> NewRow(p, Fresh[1], Fresh[2])]
             /\ started = MaxBatches /\ ops = 0
InitRetry == InitCommon /\ circuitBreakers = <<>> /\ consecutive = [k \in RouteKeys |-> 0]
             /\ proxy_configs = [p \in RelayIds |-> NewRow(p, Fresh[1], Fresh[2])]
             /\ started = MaxRetryCalls /\ ops = 0
InitBreaker == InitBank /\ started = MaxBreakerRequests /\ ops = 0
InitLimit == InitCommon /\ circuitBreakers = <<>> /\ consecutive = [k \in RouteKeys |-> 0]
             /\ proxy_configs = [p \in RelayIds |-> NewRow(p, Fresh[1], Fresh[2])]
             /\ started = MaxLimitRequests /\ ops = 0

\* what the proxy manager answers the scraper function: a relay, or no proxy
ScraperRoutes == {"p1", NoProxy}

RandomSeqs == UNION {[1..n -> RandomTerms] : n \in 0..Cardinality(RelayIds)}

ReportSteps(c) ==
  \/ \E r \in SuccessRates(pmCalls[c].read.success_rate) : ReportSuccessWrite(c, r)
  \/ ReportFailureWrite(c)
  \/ ReportDone(c)

\* reports, health checks and resets: the handlers that write a relay's health
NextHealth ==
  \E c \in CallIds :
       \/ \E p \in RelayIds \cup {MissingId} :
            \/ ReportRead(c, "report_success", p, NULL)
            \/ \E e \in ReportErrors : ReportRead(c, "report_failure", p, e)
       \/ ReportSteps(c)
       \/ HealthRead(c)
       \/ \E p \in RelayIds, h \in BOOLEAN, rt \in ResponseTimes : HealthUpdate(c, p, h, rt)
       \/ HealthDone(c)
       \/ ResetUpdate(c)
       \/ ResetDone(c)

GetSteps(c) ==
  \/ FreeCall(c) /\ \E rnd \in RandomSeqs : GetStart(c, rnd)
  \/ GetTouch(c)
  \/ pmCalls[c].pc = "query" /\ \E rows \in OrderedLoads(proxy_configs) : GetQuery(c, rows)
  \/ pmCalls[c].pc = "loaded" /\ \E rnd \in RandomSeqs : GetContinue(c, rnd)
  \/ GetUpdate(c)

\* selections racing with the reports that invalidate the snapshot cache
NextCache ==
  \E c \in CallIds :
       \/ GetSteps(c)
       \/ \E p \in RelayIds :
            \/ ReportRead(c, "report_success", p, NULL)
            \/ \E e \in ReportErrors : ReportRead(c, "report_failure", p, e)
       \/ ReportSteps(c)

\* selections and the clock, with the success reports that clear the snapshot cache
NextTtl ==
  \/ Tick
  \/ \E c \in CallIds :
       \/ GetSteps(c)
       \/ \E p \in RelayIds : ReportRead(c, "report_success", p, NULL)
       \/ \E r \in SuccessRates(pmCalls[c].read.success_rate) : ReportSuccessWrite(c, r)
       \/ ReportDone(c)

\* selections that fill the snapshot cache, and reports for known and unknown relay ids
NextNotFound ==
  \E c \in CallIds :
       \/ GetSteps(c)
       \/ \E p \in RelayIds \cup {MissingId} :
            \/ ReportRead(c, "report_success", p, NULL)
            \/ \E e \in ReportErrors : ReportRead(c, "report_failure", p, e)
       \/ ReportSteps(c)

\* selections from a cached snapshot, for every vector of random terms
NextSelect == \E rnd \in UNION {[1..n -> RandomTerms] : n \in SnapshotSizes} : SelectFromSnapshot(rnd)

Outcomes == {"ok", TimeoutMessage} \cup ErrorMessages

\* results of an attempt, one that names both a permanent and a rate-limit cause included
RetryOutcomes == Outcomes \cup {"403 blocked after 429"}

\* the retry loop on its own, for every cap from 0 up
NextRetry ==
  \E t \in TaskIds :
    \/ \E proxy \in ScraperRoutes, cap \in 0..MaxCap : RetryCall(t, proxy, cap)
    \/ AttemptFetch(t)
    \/ \E outcome \in RetryOutcomes : AttemptResult(t, outcome)
    \/ RetryCollect(t)

\* the retry loop on its own, with the calls its timers left behind settling at any time
NextRace ==
  \/ NextRetry
  \/ \E t \in TaskIds : FetchSettles(t)

\* what a target of a batch ends with at its first attempt
BatchOutcomes == {"ok", "captcha detected"}
\* lengths of the target lists: one target, one full chunk, a chunk and a rest, two full chunks
BatchSizes == {1, MAX_CONCURRENT_SCRAPES, MAX_CONCURRENT_SCRAPES + 1, 2 * MAX_CONCURRENT_SCRAPES}
\* the route the targets of these batches are given (the tally does not read it)
BatchRoutes == {"p1"}

\* batch requests of one or several chunks; each target succeeds, returns an error or
\* has its callback throw
NextBatch ==
  \/ /\ \A q \in RequestIds : reqs[q].pc = "idle"
     /\ \E r \in RequestIds, id \in Identifiers, n \in BatchSizes : ServeStart(r, id, "batch", n)
  \/ \E t \in TaskIds :
       \/ \E proxy \in BatchRoutes : BatchGotProxy(t, proxy)
       \/ BatchInvokeThrows(t)
       \/ AttemptFetch(t)
       \/ \E outcome \in BatchOutcomes : AttemptResult(t, outcome)
  \/ \E r \in RequestIds : BatchJoin(r) \/ BatchNextChunk(r)

\* batches, and the cancel action of manage-job arriving while one is in flight
NextCancel ==
  \/ NextBatch
  \/ \E r \in RequestIds : Cancel(r)

\* client addresses: the x-forwarded-for header of a request, or 'unknown'
LimitIdentifiers == {"unknown", "203.0.113.7"}

\* requests of two clients and the clock; the requests carry no URL, so that each one
\* ends at the limiter (429) or at the validation that follows it (400)
NextLimit ==
  \/ Tick
  \/ \E r \in RequestIds, id \in LimitIdentifiers : ServeStart(r, id, "invalid", 0)

\* single-target requests and the clock: everything that touches the breaker bank
NextBreaker ==
  \/ Tick
  \/ \E r \in RequestIds, id \in Identifiers : ServeStart(r, id, "single", 1)
  \/ \E t \in TaskIds :
       \/ \E proxy \in ScraperRoutes : SingleGotProxy(t, proxy)
       \/ AttemptFetch(t)
       \/ \E outcome \in Outcomes : AttemptResult(t, outcome)
       \/ SingleRespond(t)

\* the whole scraper function, the clock, and the administrative reset
NextScraper ==
  \/ NextBreaker
  \/ \E r \in RequestIds, id \in Identifiers :
       \/ \E n \in 1..MaxUrls : ServeStart(r, id, "batch", n)
       \/ ServeStart(r, id, "invalid", 0)
  \/ \E t \in TaskIds, proxy \in ScraperRoutes : BatchGotProxy(t, proxy)
  \/ \E r \in RequestIds : BatchJoin(r)
  \/ \E c \in CallIds : ResetUpdate(c) \/ ResetDone(c)

SpecHealth == InitHealthSpec /\ [][NextHealth]_vars
SpecCache == InitCache /\ [][NextCache]_vars
SpecTtl == InitTtl /\ [][NextTtl]_vars
SpecNotFound == InitNotFound /\ [][NextNotFound]_vars
SpecSelect == InitSelect /\ [][NextSelect]_vars
SpecScraper == InitScraper /\ [][NextScraper]_vars
SpecBreaker == InitBreaker /\ [][NextBreaker]_vars
SpecLimit == InitLimit /\ [][NextLimit]_vars
SpecBatch == InitBatch /\ [][NextBatch]_vars
SpecCancel == InitBatch /\ [][NextCancel]_vars
SpecRace == InitRetry /\ [][NextRace]_vars
\* timers fire and the race of fetch and 15 s timer is always decided
SpecRetry == /\ InitRetry /\ [][NextRetry]_vars
             /\ WF_vars(\E t \in TaskIds : AttemptFetch(t))
             /\ WF_vars(\E t \in TaskIds, outcome \in RetryOutcomes : AttemptResult(t, outcome))

(* =============================== properties ============================ *)

Allowed(key) == checkCircuitBreaker(circuitBreakers, key, now).allowed
SinceFailure(key) == IF key \in DOMAIN circuitBreakers
                     THEN now - circuitBreakers[key].lastFailureTime ELSE 0

\* C1: once five failures in a row have been recorded for a route key, with no success
\* between them, checkCircuitBreaker refuses the key (for as long as the 60 s window
\* since the last failure runs); with fewer than five in a row it admits the key.
C1_OpensAtThreshold ==
  \A key \in RouteKeys :
    /\ (consecutive[key] = FAILURE_THRESHOLD /\ SinceFailure(key) <= OPEN_DURATION) => ~Allowed(key)
    /\ consecutive[key] < FAILURE_THRESHOLD => Allowed(key)

\* a request has just failed as the fifth in a row, after the clock has moved
C1_Witness ==
  /\ consecutive["direct"] = FAILURE_THRESHOLD
  /\ circuitBreakers["direct"].lastFailureTime > 0
  /\ SinceFailure("direct") <= OPEN_DURATION
  /\ ~Allowed("direct")

\* C2: in half-open exactly one trial request is admitted; until its outcome is recorded
\* no second request for the same route key passes checkCircuitBreaker.
C2_OneTrialInFlight == \A key \in RouteKeys : trials[key] <= 1

\* C3: a request whose chosen route has an open breaker never reaches the external fetch,
\* on the single path and on the batch path alike.
C3_NoFetchWhenOpen == \A t \in TaskIds : tasks[t].fetches > 0 => ~tasks[t].openAtChoice

\* C4: right after resetCircuitBreakers has returned, every route key known to the
\* breaker bank is closed with zero failures.
C4_ResetClosesAll ==
  breakersAtReset.done =>
    \A key \in DOMAIN breakersAtReset.map :
      breakersAtReset.map[key].state = "closed" /\ breakersAtReset.map[key].failureCount = 0

LastWritten == proxy_configs[pmHist.lastWrite.proxyId]

\* C5: the success rate of every relay record stays within 0 and 100 points, whatever
\* success reports, failure reports, health checks and resets have run.
C5_RateInRange ==
  \A p \in RelayIds : 0 <= proxy_configs[p].success_rate /\ proxy_configs[p].success_rate <= 100 * 100

\* a failure report has just driven a rate to the floor
C5_Witness ==
  /\ pmHist.lastWrite.op = "report_failure"
  /\ LastWritten.success_rate = 0

\* C6: a relay whose success rate is at or below the minimum threshold is inactive.
C6_LowRateInactive ==
  \A p \in RelayIds :
    proxy_configs[p].success_rate <= MIN_SUCCESS_RATE * 100 => ~proxy_configs[p].is_active

\* C7: a success report on a deactivated relay that leaves its rate above the threshold
\* leaves the relay active.
C7_SuccessHeals ==
  (/\ pmHist.lastWrite.op = "report_success"
   /\ ~pmHist.lastWrite.wasActive
   /\ LastWritten.success_rate > MIN_SUCCESS_RATE * 100)
  => LastWritten.is_active

\* a success report has just landed on a deactivated relay and lifted it over the threshold
C7_Witness ==
  /\ pmHist.lastWrite.op = "report_success"
  /\ ~pmHist.lastWrite.wasActive
  /\ LastWritten.success_rate > MIN_SUCCESS_RATE * 100
  /\ LastWritten.is_active

\* C8: getOptimalProxy never hands out a relay whose durable record is inactive or below
\* the minimum rate while another relay is eligible.
C8_NeverIneligible == ~pmHist.sel.stale

\* C9: a getOptimalProxy call that starts after a report has completed selects from data
\* that contains that report's write.
C9_SeesCompletedReports == pmHist.sel.made => pmHist.sel.dataV >= pmHist.sel.startV

\* C10: getOptimalProxy never selects from a cached snapshot whose age has reached the
\* TTL of 60 s.
C10_CacheWithinTtl == pmHist.sel.cached => pmHist.sel.age < PROXY_CACHE_TTL

\* a selection has been answered from a snapshot that had aged, short of the TTL
C10_Witness == pmHist.sel.cached /\ pmHist.sel.age > 0 /\ pmHist.sel.age < PROXY_CACHE_TTL

\* report updates that have landed on a relay, as its counters tell it
Counted(p) == proxy_configs[p].successful_requests + proxy_configs[p].failed_requests

\* C11: outcome reports on one relay are atomic: the k report updates that have landed
\* have raised successful_requests + failed_requests by exactly k (no lost update).
C11_NoLostReport == Counted("p1") + Counted("p2") = pmHist.writes

\* C12: when the first request through a relay fails k times with retryable errors and
\* then succeeds, one success and k failures have been reported for the relay.
C12_RetriesReported ==
  \A t \in TaskIds :
    (tasks[t].pc = "reporting" /\ tasks[t].ok /\ started = MaxBreakerRequests - 1)
    => reported[tasks[t].proxy] = [success |-> 1, failure |-> tasks[t].attempt - 1]

Running(t) == tasks[t].pc \in {"delay", "fetching"}
Settled(t) == tasks[t].pc = "settled"

\* C13: after an attempt whose returned error is classified permanent the retry loop makes
\* no further attempt: it never goes on after such an error, and a call that ended with
\* an error has invoked the fetch exactly as often as the attempt that ended it says.
C13_PermanentStops ==
  \A t \in TaskIds :
    /\ ~tasks[t].retriedPermanent
    /\ (Settled(t) /\ ~tasks[t].ok /\ tasks[t].lastError # NoAttemptsMessage)
         => tasks[t].fetches = tasks[t].attempt

\* a call has ended on a permanent error at its second attempt, short of its cap
C13_Witness ==
  \E t \in TaskIds :
    /\ Settled(t) /\ ~tasks[t].ok
    /\ tasks[t].lastError = "captcha detected"
    /\ tasks[t].attempt = 2 /\ tasks[t].fetches = 2
    /\ tasks[t].attempt < tasks[t].maxRetries

C14_Bounded ==
  \A t \in TaskIds :
    /\ tasks[t].fetches <= tasks[t].maxRetries
    /\ Settled(t) => (tasks[t].ok \/ tasks[t].lastError # NULL)

\* C14: the retry loop terminates: it invokes the fetch at most maxRetries times and every
\* call ends with a success result or an explicit error value.
C14_BoundedAndTerminates ==
  /\ []C14_Bounded
  /\ \A t \in TaskIds : Running(t) ~> Settled(t)

\* a call has used up the default cap of five attempts and returned an error
C14_Witness ==
  \E t \in TaskIds :
    /\ Settled(t) /\ ~tasks[t].ok
    /\ tasks[t].maxRetries = MAX_RETRY_ATTEMPTS
    /\ tasks[t].fetches = MAX_RETRY_ATTEMPTS

\* C15: a failure returned by the retry loop carries the error message, its category,
\* the number of attempts made and the elapsed time.
C15_FailureAnnotated ==
  \A t \in TaskIds :
    (Settled(t) /\ ~tasks[t].ok)
    => {"error", "category", "attempts", "elapsed"} \subseteq ResultFields(tasks[t].ok)

\* C16: a batch over a non-empty target list ends with a summary whose total is the
\* number of targets and equals successful + failed.
C16_SummaryAddsUp ==
  lastResponse.total > 0 =>
    /\ lastResponse.status = 200
    /\ lastResponse.total = lastResponse.successful + lastResponse.failed

\* a batch of ten targets, two chunks, has ended with successes and failures in it
C16_Witness ==
  /\ lastResponse.total = 2 * MAX_CONCURRENT_SCRAPES
  /\ lastResponse.successful > 0
  /\ lastResponse.failed > 1
  /\ lastResponse.total = lastResponse.successful + lastResponse.failed

\* C17: once a batch has been cancelled, none of its targets starts another fetch attempt,
\* in the running chunk or in a later one
C17_CancelStopsAttempts == \A t \in TaskIds : ~tasks[t].afterCancel

\* C18: every report whose update lands raises total_requests of the reported relay by one,
\* together with successful_requests or failed_requests.
C18_TotalCounted ==
  [][pmHist'.writes = pmHist.writes + 1 =>
       LET p == pmHist'.lastWrite.proxyId
       IN proxy_configs'[p].total_requests = proxy_configs[p].total_requests + 1]_vars

\* C19: a failure report that read the rate r stores max(0, r - penalty * 0.15), which is
\* never above r (r = 0 included), and stores is_active = (new rate > MIN_SUCCESS_RATE).
C19_FailureLowers ==
  [][\A c \in CallIds :
       (pmCalls[c].op = "report_failure" /\ pmCalls[c].pc = "read" /\ pmCalls'[c].pc = "written") =>
         LET r == pmCalls[c].read.success_rate
             row == proxy_configs'[pmCalls[c].proxyId]
         IN /\ row.success_rate = Max(0, r - categorizeErrorSeverity(pmCalls[c].error) * 15)
            /\ row.success_rate <= r
            /\ row.is_active = (row.success_rate > MIN_SUCCESS_RATE * 100)]_vars

\* C20: a report for a relay id that is not in the store returns the 'Proxy not found'
\* failure and changes nothing: no relay row is written and the snapshot cache and its
\* timestamp stay as they were.
C20_UnknownIdChangesNothing ==
  [][pmHist'.rejected = pmHist.rejected + 1 =>
       /\ pmHist'.result = ReportFailed(ProxyNotFound)
       /\ proxy_configs' = proxy_configs
       /\ cachedProxies' = cachedProxies
       /\ cacheTimestamp' = cacheTimestamp
       /\ pmHist'.writes = pmHist.writes]_vars

\* a report for an unknown id has been turned away while a snapshot was cached
C20_Witness ==
  /\ pmHist.rejected > 0
  /\ pmHist.result = ReportFailed(ProxyNotFound)
  /\ cachedProxies.valid
  /\ pmHist.sel.made

\* C21: when the rows of the snapshot are equal in recency, latency and request count and
\* one of them is more than 50 points of success rate above every other, the selection
\* returns that row whatever the random terms are.
C21_SuccessDominant ==
  LET rows == cachedProxies.rows
      equalButRate == \A i, j \in 1..Len(rows) :
                        /\ rows[i].last_used_at = rows[j].last_used_at
                        /\ rows[i].avg_response_time = rows[j].avg_response_time
                        /\ rows[i].total_requests = rows[j].total_requests
      dominant(i) == \A j \in 1..Len(rows) :
                       j # i => rows[i].success_rate > rows[j].success_rate + 50 * 100
  IN pmHist.sel.made =>
       \A i \in 1..Len(rows) : (equalButRate /\ dominant(i)) => pmHist.sel.proxy = rows[i].id

\* one relay at 95 and four at 30, otherwise equal: the relay at 95 has been selected
C21_Witness ==
  LET rows == cachedProxies.rows
  IN /\ pmHist.sel.made
     /\ Len(rows) = 5
     /\ rows[1].success_rate = 95 * 100
     /\ \A j \in 2..5 : /\ rows[j].success_rate = 30 * 100
                         /\ rows[j].total_requests = rows[1].total_requests
     /\ pmHist.sel.proxy = rows[1].id

\* C22: a breaker that is open refuses its key for as long as no more than 60 s have
\* passed since the last failure recorded for it, whatever outcome a request that was
\* admitted earlier records in between.
C22_OpenHoldsForWindow ==
  [][\A key \in DOMAIN circuitBreakers :
       (/\ circuitBreakers[key].state = "open"
        /\ now' - circuitBreakers'[key].lastFailureTime <= OPEN_DURATION)
         => ~checkCircuitBreaker(circuitBreakers', key, now').allowed]_vars

C24_AttemptsFedBack ==
  \A t \in TaskIds :
    (/\ started = MaxBreakerRequests - 1
     /\ tasks[t].req # 0 /\ tasks[t].pc \in {"delay", "fetching"}
     /\ tasks[t].proxy # NoProxy /\ tasks[t].attempt > 1)
      => /\ getCircuitBreakerKey(tasks[t].proxy) \in DOMAIN circuitBreakers
         /\ circuitBreakers[getCircuitBreakerKey(tasks[t].proxy)].failureCount = tasks[t].attempt - 1

C26_BatchFedBack ==
  \A t \in TaskIds :
    (tasks[t].pc = "settled" /\ tasks[t].req # 0 /\ tasks[t].fetches > 0 /\ tasks[t].proxy # NoProxy)
      => /\ getCircuitBreakerKey(tasks[t].proxy) \in DOMAIN circuitBreakers
         /\ reported[tasks[t].proxy].success + reported[tasks[t].proxy].failure > 0

\* C27: every fetch attempt of a request's target uses a route obtained for that attempt:
\* a target has never been fetched more often than a route has been obtained for it.
C27_RoutePerAttempt ==
  \A t \in TaskIds : tasks[t].req # 0 => tasks[t].fetches <= tasks[t].routes

C29_PoolBounded ==
  \A r \in RequestIds :
    reqs[r].mode = "batch" => Cardinality(TasksOf(r)) <= Min(MAX_CONCURRENT_SCRAPES, reqs[r].nUrls)

\* C29: a batch never has more than min(5, number of targets) target tasks in flight; a
\* chunk starts only when no task of an earlier chunk is left, with one task for each of
\* its targets; and no task that has not settled is ever dropped, whatever its siblings did.
C29_BoundedPool ==
  /\ []C29_PoolBounded
  /\ [][\A r \in RequestIds :
          reqs'[r].i > reqs[r].i =>
            /\ TasksOf(r) = {}
            /\ Cardinality({t \in TaskIds : tasks'[t].pc # "idle" /\ tasks'[t].req = r})
                 = Min(MAX_CONCURRENT_SCRAPES, reqs[r].nUrls - reqs'[r].i)]_vars
  /\ [][\A t \in TaskIds :
          (tasks[t].pc \notin {"idle", "settled"}) => tasks'[t].pc # "idle"]_vars

\* the second chunk of a batch of ten is running, one of its targets has failed and four
\* siblings are still in flight
C29_Witness ==
  \E r \in RequestIds :
    /\ reqs[r].mode = "batch" /\ reqs[r].nUrls = 2 * MAX_CONCURRENT_SCRAPES
    /\ reqs[r].i = MAX_CONCURRENT_SCRAPES
    /\ \E t \in TasksOf(r) : tasks[t].pc = "settled" /\ ~tasks[t].ok
    /\ Cardinality({t \in TasksOf(r) : tasks[t].pc = "fetching"}) = MAX_CONCURRENT_SCRAPES - 1

\* the count of every identifier stays between 1 and MAX_REQUESTS_PER_WINDOW
C30_CountBounded ==
  \A id \in DOMAIN userRequests :
    1 <= userRequests[id].count /\ userRequests[id].count <= MAX_REQUESTS_PER_WINDOW

\* C30: within one window of 60 s from its first admitted request an identifier has at
\* most 20 requests admitted, each of them counted; a further request in the window is
\* refused with status 429 and the window's reset time and changes nothing; the first
\* request after the window has passed is admitted and starts a new window with count 1.
C30_WindowLimit ==
  /\ []C30_CountBounded
  /\ [][started' = started - 1 =>
          \E id \in LimitIdentifiers :
            /\ \A other \in DOMAIN userRequests \ {id} :
                  other \in DOMAIN userRequests' /\ userRequests'[other] = userRequests[other]
            /\ IF id \notin DOMAIN userRequests \/ now > userRequests[id].resetTime
               THEN /\ id \in DOMAIN userRequests'
                    /\ userRequests'[id] = [count |-> 1, resetTime |-> now + RATE_LIMIT_WINDOW]
                    /\ lastResponse'.status # 429
               ELSE IF userRequests[id].count < MAX_REQUESTS_PER_WINDOW
               THEN /\ userRequests'[id] = [count |-> userRequests[id].count + 1,
                                            resetTime |-> userRequests[id].resetTime]
                    /\ lastResponse'.status # 429
               ELSE /\ userRequests' = userRequests
                    /\ lastResponse'.status = 429
                    /\ lastResponse'.resetTime = userRequests[id].resetTime]_vars

\* 'unknown' has sent 22 requests: the first at time 0, 21 in all up to 60 s (the 21st
\* was refused), and the 22nd at 90 s, which opened a new window with count 1
C30_Witness ==
  /\ started = MaxLimitRequests - (MAX_REQUESTS_PER_WINDOW + 2)
  /\ DOMAIN userRequests = {"unknown"}
  /\ userRequests["unknown"] = [count |-> 1, resetTime |-> 3 * TickMs + RATE_LIMIT_WINDOW]
  /\ lastResponse.status = 400

====
